---- MODULE Spec2Model ----
(***************************************************************************)
(* Completion extensions of tinymist-query (upstream/complete/ext.rs):     *)
(*   scope_completions_             names visible at the cursor            *)
(*   param_completions              parameters of the called function      *)
(*   named_param_value_completions  values of one named parameter          *)
(*                                                                         *)
(* A syntax tree is a record [par, kind]: the nodes are 1..Len(par) in     *)
(* document order, par[n] is the parent of n (0 for the root) and kind[n]  *)
(* its syntax kind.  The trees hold the non-trivia nodes only: typst's     *)
(* LinkedNode::prev_sibling skips trivia, so what the code sees of a       *)
(* sibling list is its non-trivia members.                                 *)
(***************************************************************************)
EXTENDS Integers, Sequences, FiniteSets, TLC

VARIABLES
    tree,        \* the parsed document (read-only)
    leaf,        \* self.leaf: the leaf node under the cursor
    pc,          \* position in the running operation
    ancestor,    \* scope_completions_: `ancestor` of the outer loop (0: None)
    sibling,     \* scope_completions_: `sibling` of the inner loop (0: None)
    defined,     \* scope_completions_: the BTreeMap name -> CompletionKind
    calls,       \* history: every try_insert call so far, in order
    analyzed,    \* history: what analyze_import answered, per import node
    call,        \* the arguments of the running operation
    introspected,\* history: the function handed to analyze_dyn_signature
    completions, \* ctx.completions, the caller's result buffer
    enriched     \* history: the ctx.enrich(..) requests, in order

vars == <<tree, leaf, pc, ancestor, sibling, defined, calls, analyzed, call,
          introspected, completions, enriched>>

----------------------------------------------------------------------------
(* Bounds *)

MaxNodes == 4

MaxWith == 2

MaxArgs == 2

None == "None"

----------------------------------------------------------------------------
(* Syntax trees *)

Nodes(t) == 1..Len(t.par)

parent(t, n) == t.par[n]

kindOf(t, n) == IF n = 0 THEN None ELSE t.kind[n]

Children(t, n) == {m \in Nodes(t) : t.par[m] = n}

IsLeaf(t, n) == Children(t, n) = {}

SetMax(S) == CHOOSE m \in S : \A k \in S : k <= m

\* The siblings of n that come before it, in document order.
PrecedingSiblings(t, n) ==
    IF t.par[n] = 0 THEN {} ELSE {m \in Children(t, t.par[n]) : m < n}

\* Variant: the node before n in document order, as long as it is not the
\* parent: the walk then runs into the previous sibling's subtree.
prev_sibling_in_document(t, n) == IF n > 1 /\ n - 1 # t.par[n] THEN n - 1 ELSE 0

prev_sibling(t, n) ==
    IF PrecedingSiblings(t, n) = {} THEN 0 ELSE SetMax(PrecedingSiblings(t, n))

prev_sibling_kind(t, n) == kindOf(t, prev_sibling(t, n))

parent_kind(t, n) == kindOf(t, parent(t, n))

RECURSIVE AncestorOrSelf(_, _, _)
\* a is n or an ancestor of n, under the parent array par.
AncestorOrSelf(par, a, n) ==
    IF n = 0 THEN FALSE
    ELSE IF n = a THEN TRUE
    ELSE AncestorOrSelf(par, a, par[n])

\* The cursor leaf and its ancestors: the nodes `ancestor` runs through.
Spine(t, l) == {a \in Nodes(t) : AncestorOrSelf(t.par, a, l)}

\* The nodes the inner loop runs through for ancestor a.
Walk(t, a) == {a} \cup PrecedingSiblings(t, a)

----------------------------------------------------------------------------
(* The documents of the model: every tree of at most MaxNodes nodes. *)

LetKinds == {"LetNormal", "LetClosure"}
ImportKinds == {"ImportAll", "ImportItems"}
NodeKinds ==
    {"Other", "Equation", "ForLoop", "Closure"} \cup LetKinds \cup ImportKinds

RECURSIVE Shapes(_)
\* The parent arrays of the n-node trees, nodes numbered in document order.
Shapes(n) ==
    IF n = 1 THEN {<<0>>}
    ELSE UNION { {Append(p, q) : q \in {a \in 1..(n - 1) : AncestorOrSelf(p, a, n - 1)}}
                 : p \in Shapes(n - 1) }

\* The kinds node n may have under parent array p, given the kinds k of the
\* nodes before it: the root is the markup root, the `in` keyword is a token
\* of a for loop and stands there once.
KindsAt(p, k, n) ==
    IF n = 1 THEN {"Other"}
    ELSE NodeKinds \cup
         (IF /\ k[p[n]] = "ForLoop"
             /\ \A j \in 1..(n - 1) : p[j] = p[n] => k[j] # "In"
             /\ \A j \in (n + 1)..Len(p) : p[j] # n
          THEN {"In"} ELSE {})

RECURSIVE Labelings(_, _)
Labelings(p, n) ==
    IF n = 0 THEN {<<>>}
    ELSE UNION { {Append(k, x) : x \in KindsAt(p, k, n)} : k \in Labelings(p, n - 1) }

\* t is a document of the model.
IsTree(t) ==
    \E n \in 1..MaxNodes : \E p \in Shapes(n) : \E k \in Labelings(p, n) :
        t = [par |-> p, kind |-> k]

\* The cursor is on a token: a leaf that is no composite node.
CursorLeaves(t) == {n \in Nodes(t) : IsLeaf(t, n) /\ t.kind[n] \in {"Other", "In"}}

----------------------------------------------------------------------------
(* What the nodes of the documents declare *)

\* v.kind().bindings() of a let binding: `let (x, y) = ..` and `let x(a) = ..`
LetBindings(k) == IF k = "LetNormal" THEN <<"x", "y">> ELSE <<"x">>

\* v.pattern().bindings() of a for loop: `for (x, k) in ..`
ForPattern == <<"x", "k">>

\* v.params().children() of a closure: `(x, y: 1, ..z, ..) => ..`
ClosureParams ==
    << [tag |-> "Pos", idents |-> <<"x">>],
       [tag |-> "Named", name |-> "y"],
       [tag |-> "Spread", sink |-> "z"],
       [tag |-> "Spread", sink |-> None] >>

\* The scope of the module an import may resolve to.
ModuleScope == << <<"x", "Type">>, <<"f", "Func">>, <<"m2", "Module">>, <<"c", "Int">> >>

\* What analyze_import may answer: nothing (some = FALSE), or a value with or
\* without a name (value.name()) and a scope (value.scope()).
Unresolved == [some |-> FALSE, name |-> None, has_scope |-> FALSE, scope |-> <<>>]

ImportResults ==
    { Unresolved,
      [some |-> TRUE, name |-> "m", has_scope |-> TRUE, scope |-> ModuleScope],
      [some |-> TRUE, name |-> None, has_scope |-> TRUE, scope |-> ModuleScope],
      [some |-> TRUE, name |-> "", has_scope |-> FALSE, scope |-> <<>>] }

\* Every name of the model, in the order of a BTreeMap<EcoString, _>.
NameOrder == <<"c", "calc", "f", "k", "m", "m2", "sqrt", "x", "y", "z">>

----------------------------------------------------------------------------
(* scope_completions_: the binding collector *)

\* Variant: a later insertion replaces the binding.
try_insert_overwrite(d, name, kind) ==
    IF name = "" THEN d
    ELSE [n \in DOMAIN d \cup {name} |-> IF n = name THEN kind ELSE d[n]]

\* The closure try_insert, on the map d.
try_insert(d, name, kind) ==
    IF name = "" THEN d
    ELSE IF name \in DOMAIN d THEN d
    ELSE d @@ (name :> kind)

RECURSIVE InsertAll(_, _)
\* try_insert for each <<name, kind>> of a sequence, in order.
InsertAll(d, cs) ==
    IF cs = <<>> THEN d
    ELSE InsertAll(try_insert(d, Head(cs)[1], Head(cs)[2]), Tail(cs))

LetCompletionKind(k) == IF k = "LetClosure" THEN "Func" ELSE "Variable"

\* The try_insert calls of the let-binding part of the inner loop's body.
LetCalls(k) ==
    IF k \in LetKinds
    THEN [i \in 1..Len(LetBindings(k)) |-> <<LetBindings(k)[i], LetCompletionKind(k)>>]
    ELSE <<>>

ValueCompletionKind(cat) ==
    CASE cat = "Func" -> "Func"
      [] cat = "Module" -> "Module"
      [] cat = "Type" -> "Type"
      [] OTHER -> "Constant"

\* The try_insert calls of the module-import part of the inner loop's body;
\* r is what analyze_import answered for the node.
ImportCalls(k, r) ==
    IF k \notin ImportKinds THEN <<>>
    ELSE IF ~r.some THEN <<>>
    ELSE IF k = "ImportAll"
         THEN (IF r.name # None THEN << <<r.name, "Module">> >> ELSE <<>>)
    ELSE IF r.has_scope
         THEN [i \in 1..Len(r.scope) |-> <<r.scope[i][1], ValueCompletionKind(r.scope[i][2])>>]
    ELSE <<>>

\* Variant: an import that does not resolve ends the collection with nothing.
VisitSibling_abort(d, k, r) ==
    IF k \in ImportKinds /\ ~r.some THEN <<>>
    ELSE InsertAll(InsertAll(d, LetCalls(k)), ImportCalls(k, r))

\* The body of the inner loop: `defined` after the visit of a node of kind k.
VisitSibling(d, k, r) == InsertAll(InsertAll(d, LetCalls(k)), ImportCalls(k, r))

\* Variant: the pattern is recorded for every child of the loop.
ForCalls_every_child(t, node) ==
    IF parent_kind(t, node) = "ForLoop"
    THEN [i \in 1..Len(ForPattern) |-> <<ForPattern[i], "Variable">>]
    ELSE <<>>

\* The try_insert calls of the for-loop part of the outer loop's body, for
\* `node` with a parent.
ForCalls(t, node) ==
    IF parent_kind(t, node) = "ForLoop" /\ prev_sibling_kind(t, node) # "In"
    THEN [i \in 1..Len(ForPattern) |-> <<ForPattern[i], "Variable">>]
    ELSE <<>>

ParamIdents(p) ==
    CASE p.tag = "Pos" -> p.idents
      [] p.tag = "Named" -> <<p.name>>
      [] OTHER -> IF p.sink # None THEN <<p.sink>> ELSE <<>>

RECURSIVE ParamCalls(_)
ParamCalls(params) ==
    IF params = <<>> THEN <<>>
    ELSE [i \in 1..Len(ParamIdents(Head(params))) |->
             <<ParamIdents(Head(params))[i], "Variable">>]
         \o ParamCalls(Tail(params))

\* The try_insert calls of the closure part of the outer loop's body, for
\* `node` with a parent.
ClosureCalls(t, node) ==
    IF kindOf(t, node) = "Closure" THEN ParamCalls(ClosureParams) ELSE <<>>

\* History records of the calls cs made for node n.
Logged(cs, n, via) ==
    [i \in 1..Len(cs) |-> [name |-> cs[i][1], kind |-> cs[i][2], node |-> n, via |-> via]]

----------------------------------------------------------------------------
(* scope_completions_: the completion assembler *)

MathKinds == {"Equation", "Math", "MathFrac", "MathAttach"}

\* Variant: math mode for a cursor anywhere below a math node.
in_math_below(t, l) == \E a \in Spine(t, l) \ {l} : t.kind[a] \in MathKinds

\* matches!(self.leaf.parent_kind(), Some(Equation | Math | MathFrac | MathAttach))
in_math(t, l) == parent_kind(t, l) \in MathKinds

\* world().library(): the two builtin scopes, in the order of their iteration.
GlobalScope ==
    << <<"x", [cat |-> "Func", lib |-> "global"]>>,
       <<"calc", [cat |-> "Module", lib |-> "global"]>>,
       <<"m", [cat |-> "Type", lib |-> "global"]>> >>

MathScope ==
    << <<"x", [cat |-> "Symbol", lib |-> "math"]>>,
       <<"sqrt", [cat |-> "Func", lib |-> "math"]>>,
       <<"y", [cat |-> "Symbol", lib |-> "math"]>> >>

LibraryScope(inMath) == IF inMath THEN MathScope ELSE GlobalScope

\* The caller's filters: the categories of value each one accepts.
Filters == { {"Func", "Module", "Type", "Symbol"}, {"Func"}, {} }

\* The entry value_completion(Some(name), value, parens, None) pushes.
value_completion(name, value, parens) ==
    [ kind    |-> IF value.cat \in {"Func", "Type", "Symbol"} THEN value.cat ELSE "Constant",
      label   |-> name,
      apply   |-> IF parens /\ value.cat = "Func" THEN <<name, "(${})">> ELSE None,
      detail  |-> None,
      command |-> None,
      origin  |-> value.lib ]

\* Variant: the builtin is pushed whether the document declares the name or not.
BuiltinPushed_unshadowed(name, value, d, filter) == value.cat \in filter

\* filter(value) && !defined.contains_key(name)
BuiltinPushed(name, value, d, filter) == value.cat \in filter /\ name \notin DOMAIN d

RECURSIVE BuiltinEntries(_, _, _, _)
\* The loop over the builtin scope.
BuiltinEntries(scope, d, filter, parens) ==
    IF scope = <<>> THEN <<>>
    ELSE (IF BuiltinPushed(Head(scope)[1], Head(scope)[2], d, filter)
          THEN <<value_completion(Head(scope)[1], Head(scope)[2], parens)>>
          ELSE <<>>)
         \o BuiltinEntries(Tail(scope), d, filter, parens)

\* The entry pushed for one binding of `defined`.
LocalEntry(name, kind) ==
    IF kind = "Func"
    THEN [ kind |-> kind, label |-> name, apply |-> <<name, "(${})">>, detail |-> None,
           command |-> "editor.action.triggerSuggest", origin |-> "local" ]
    ELSE [ kind |-> kind, label |-> name, apply |-> None, detail |-> None,
           command |-> None, origin |-> "local" ]

RECURSIVE LocalEntries(_, _)
\* The loop over `defined`, in the order of its keys.
LocalEntries(d, order) ==
    IF order = <<>> THEN <<>>
    ELSE (IF Head(order) \in DOMAIN d /\ Head(order) # ""
          THEN <<LocalEntry(Head(order), d[Head(order)])>>
          ELSE <<>>)
         \o LocalEntries(d, Tail(order))

----------------------------------------------------------------------------
(* scope_completions_ as a state machine *)

EmptyMap == <<>>

NoCall == [op |-> "scope"]

InitScope ==
    /\ IsTree(tree)
    /\ leaf \in CursorLeaves(tree)
    /\ pc = "sibling"
    /\ ancestor = leaf
    /\ sibling = leaf
    /\ defined = EmptyMap
    /\ calls = <<>>
    /\ analyzed = EmptyMap
    /\ call = NoCall
    /\ introspected = [repr |-> "None"]
    /\ completions = <<>>
    /\ enriched = <<>>

\* One turn of the inner loop: visit `sibling`, go to its previous sibling.
SiblingStep ==
    /\ pc = "sibling"
    /\ call.op = "scope"
    /\ LET k == kindOf(tree, sibling) IN
       \E r \in (IF k \in ImportKinds THEN ImportResults ELSE {Unresolved}) :
          /\ defined' = VisitSibling(defined, k, r)
          /\ calls' = calls \o Logged(LetCalls(k), sibling, "let")
                            \o Logged(ImportCalls(k, r), sibling, "import")
          /\ analyzed' = IF k \in ImportKinds THEN analyzed @@ (sibling :> r) ELSE analyzed
    /\ sibling' = prev_sibling(tree, sibling)
    /\ pc' = IF sibling' = 0 THEN "parent" ELSE "sibling"
    /\ UNCHANGED <<tree, leaf, ancestor, call, introspected, completions, enriched>>

\* The end of one turn of the outer loop, when `ancestor` has a parent.
Ascend ==
    /\ pc = "parent"
    /\ call.op = "scope"
    /\ parent(tree, ancestor) # 0
    /\ defined' = InsertAll(InsertAll(defined, ForCalls(tree, ancestor)),
                            ClosureCalls(tree, ancestor))
    /\ calls' = calls \o Logged(ForCalls(tree, ancestor), parent(tree, ancestor), "for")
                      \o Logged(ClosureCalls(tree, ancestor), ancestor, "closure")
    /\ ancestor' = parent(tree, ancestor)
    /\ sibling' = parent(tree, ancestor)
    /\ pc' = "sibling"
    /\ UNCHANGED <<tree, leaf, analyzed, call, introspected, completions, enriched>>

\* The outer loop breaks at the root; the builtin scope is merged and the
\* entries are pushed.
Assemble ==
    /\ pc = "parent"
    /\ call.op = "scope"
    /\ parent(tree, ancestor) = 0
    /\ \E parens \in BOOLEAN, filter \in Filters :
          /\ call' = [op |-> "scope", parens |-> parens, filter |-> filter]
          /\ completions' = completions
                 \o BuiltinEntries(LibraryScope(in_math(tree, leaf)), defined, filter, parens)
                 \o LocalEntries(defined, NameOrder)
    /\ pc' = "done"
    /\ UNCHANGED <<tree, leaf, ancestor, sibling, defined, calls, analyzed,
                   introspected, enriched>>

NextScope == SiblingStep \/ Ascend \/ Assemble

SpecScope == InitScope /\ [][NextScope]_vars

----------------------------------------------------------------------------
(* Functions and signatures *)

\* func.inner(): a function is a base function or Repr::With(f), a partial
\* application of the function f.0.
BaseFunc == [repr |-> "Native"]

RECURSIVE WithChain(_)
\* The base function under n partial applications.
WithChain(n) == IF n = 0 THEN BaseFunc ELSE [repr |-> "With", f |-> WithChain(n - 1)]

\* resolve_callee answered nothing.
NoFunc == [repr |-> "None"]

\* What resolve_callee may answer: nothing, or a function.
Callees == {NoFunc} \cup {WithChain(n) : n \in 0..MaxWith}

\* Variant: one partial application is peeled off, not all.
Unwrap_once(func) == IF func.repr = "With" THEN func.f ELSE func

RECURSIVE Unwrap(_)
\* while let Repr::With(f) = func.inner() { func = f.0.clone(); }
Unwrap(func) == IF func.repr = "With" THEN Unwrap(func.f) ELSE func

ParamOrder == <<"a", "font">>

ParamNames == {ParamOrder[i] : i \in 1..Len(ParamOrder)}

\* The descriptors a signature may hold for the parameter called name.
ParamSpecs(name) ==
    { [ name |-> name, docs |-> <<"docs", name>>, input |-> <<"input", name>>,
        positional |-> p, named |-> n, settable |-> s, expr |-> e ]
      : p \in BOOLEAN, n \in BOOLEAN, s \in BOOLEAN, e \in {None, "auto"} }

\* primary_sig.named of the signatures: a map from name to descriptor.
IsSignature(sig) ==
    \E D \in SUBSET ParamNames :
        /\ DOMAIN sig = D
        /\ \A n \in D : sig[n] \in ParamSpecs(n)

NoParams == <<>>

\* analyze_dyn_signature(ctx, func).primary().named, where sig is the
\* signature of the base function: a partial application as such declares
\* no parameters.
analyze_dyn_signature(func, sig) == IF func.repr = "With" THEN NoParams ELSE sig

\* plain_docs_sentence(docs)
plain_docs_sentence(docs) == <<"sentence", docs>>

\* The items of an argument list: named (name: value), positional and
\* spread; a positional or spread item carries the text of its expression.
ArgItems ==
    { [tag |-> "Named", name |-> "a"], [tag |-> "Named", name |-> "font"],
      [tag |-> "Pos", name |-> "a"], [tag |-> "Spread", name |-> "font"] }

ArgLists == UNION { [1..n -> ArgItems] : n \in 0..MaxArgs }

\* The last character of ctx.before.
BeforeEnds == {",", ":", "("}

----------------------------------------------------------------------------
(* param_completions *)

\* Variant: every argument excludes, named or not.
Exclude_any_argument(args) == {args[i].name : i \in 1..Len(args)}

\* `exclude`: the names of the named arguments of the call.
Exclude(args) == {args[i].name : i \in {j \in 1..Len(args) : args[j].tag = "Named"}}

\* What ctx.cast_completions(&param.input) appends for parameter `name`.
cast_completions(input, name) ==
    << [ kind |-> "Cast", label |-> input, apply |-> None, detail |-> None,
         command |-> None, origin |-> name ] >>

\* Variant: parameters that are not settable are skipped in every context.
ParamEntries_settable_only(name, param, exclude, set) ==
    IF name \in exclude THEN <<>>
    ELSE IF ~param.settable THEN <<>>
    ELSE (IF param.named
          THEN << [ kind |-> "Param", label |-> param.name,
                    apply |-> <<param.name, ": ${}">>,
                    detail |-> plain_docs_sentence(param.docs),
                    command |-> "editor.action.triggerSuggest", origin |-> name ] >>
          ELSE <<>>)
         \o (IF param.positional THEN cast_completions(param.input, name) ELSE <<>>)

\* The body of the loop over primary_sig.named, for one parameter.
ParamEntries(name, param, exclude, set) ==
    IF name \in exclude THEN <<>>
    ELSE IF set /\ ~param.settable THEN <<>>
    ELSE (IF param.named
          THEN << [ kind |-> "Param", label |-> param.name,
                    apply |-> <<param.name, ": ${}">>,
                    detail |-> plain_docs_sentence(param.docs),
                    command |-> "editor.action.triggerSuggest", origin |-> name ] >>
          ELSE <<>>)
         \o (IF param.positional THEN cast_completions(param.input, name) ELSE <<>>)

RECURSIVE SignatureEntries(_, _, _, _)
\* The loop over primary_sig.named.
SignatureEntries(order, named, exclude, set) ==
    IF order = <<>> THEN <<>>
    ELSE (IF Head(order) \in DOMAIN named
          THEN ParamEntries(Head(order), named[Head(order)], exclude, set)
          ELSE <<>>)
         \o SignatureEntries(Tail(order), named, exclude, set)

\* [func, entries, enrich]: the function introspected, the entries appended
\* and the enrichment requested by param_completions for a resolved callee.
param_completions(callee, sig, set, args, before) ==
    LET func == Unwrap(callee) IN
    [ func    |-> func,
      entries |-> SignatureEntries(ParamOrder, analyze_dyn_signature(func, sig),
                                   Exclude(args), set),
      enrich  |-> IF before = "," THEN << <<" ", "">> >> ELSE <<>> ]

----------------------------------------------------------------------------
(* named_param_value_completions *)

\* What ctx.font_completions() appends.
font_completions ==
    << [ kind |-> "Font", label |-> "font-family", apply |-> None, detail |-> None,
         command |-> None, origin |-> "font" ] >>

\* [func, entries, enrich] of named_param_value_completions for a resolved
\* callee.
named_param_value_completions(callee, sig, name, before) ==
    LET func == Unwrap(callee)
        named == analyze_dyn_signature(func, sig)
    IN  IF name \notin DOMAIN named
        THEN [func |-> func, entries |-> <<>>, enrich |-> <<>>]
        ELSE IF ~named[name].named
        THEN [func |-> func, entries |-> <<>>, enrich |-> <<>>]
        ELSE [ func    |-> func,
               entries |->
                   (IF named[name].expr # None
                    THEN << [ kind |-> "Constant", label |-> named[name].expr,
                              apply |-> None,
                              detail |-> plain_docs_sentence(named[name].docs),
                              command |-> None, origin |-> name ] >>
                    ELSE <<>>)
                   \o cast_completions(named[name].input, name)
                   \o (IF name = "font" THEN font_completions ELSE <<>>),
               enrich  |-> IF before = ":" THEN << <<" ", "">> >> ELSE <<>> ]

----------------------------------------------------------------------------
(* The two call-site operations as a state machine *)

NoTree == [par |-> <<0>>, kind |-> <<"Other">>]

InitParam ==
    /\ tree = NoTree
    /\ leaf = 1
    /\ pc = "call"
    /\ ancestor = 0
    /\ sibling = 0
    /\ defined = EmptyMap
    /\ calls = <<>>
    /\ analyzed = EmptyMap
    /\ \E callee \in Callees, before \in BeforeEnds :
       \E D \in SUBSET ParamNames : \E sig \in [D -> UNION {ParamSpecs(n) : n \in ParamNames}] :
          /\ IsSignature(sig)
          /\ \/ \E set \in BOOLEAN, args \in ArgLists :
                   call = [ op |-> "param", callee |-> callee, sig |-> sig, set |-> set,
                            args |-> args, before |-> before ]
             \/ \E name \in ParamNames \cup {"b"} :
                   call = [ op |-> "named", callee |-> callee, sig |-> sig, name |-> name,
                            before |-> before ]
    /\ introspected = [repr |-> "None"]
    /\ completions = <<>>
    /\ enriched = <<>>

ParamCompletions ==
    /\ pc = "call"
    /\ call.op = "param"
    /\ IF call.callee = NoFunc
       THEN UNCHANGED <<introspected, completions, enriched>>
       ELSE LET out == param_completions(call.callee, call.sig, call.set, call.args,
                                         call.before) IN
            /\ introspected' = out.func
            /\ completions' = completions \o out.entries
            /\ enriched' = enriched \o out.enrich
    /\ pc' = "done"
    /\ UNCHANGED <<tree, leaf, ancestor, sibling, defined, calls, analyzed, call>>

NamedParamValueCompletions ==
    /\ pc = "call"
    /\ call.op = "named"
    /\ IF call.callee = NoFunc
       THEN UNCHANGED <<introspected, completions, enriched>>
       ELSE LET out == named_param_value_completions(call.callee, call.sig, call.name,
                                                     call.before) IN
            /\ introspected' = out.func
            /\ completions' = completions \o out.entries
            /\ enriched' = enriched \o out.enrich
    /\ pc' = "done"
    /\ UNCHANGED <<tree, leaf, ancestor, sibling, defined, calls, analyzed, call>>

NextParam == ParamCompletions \/ NamedParamValueCompletions

SpecParam == InitParam /\ [][NextParam]_vars

----------------------------------------------------------------------------
(* The binding collector as a function of the document *)

RECURSIVE WalkFrom(_, _, _, _)
\* The inner loop from sibling s on; an[n] is analyze_import's answer for n.
WalkFrom(d, t, s, an) ==
    IF s = 0 THEN d
    ELSE WalkFrom(VisitSibling(d, kindOf(t, s),
                               IF s \in DOMAIN an THEN an[s] ELSE Unresolved),
                  t, prev_sibling(t, s), an)

RECURSIVE Collect(_, _, _, _)
\* The outer loop from ancestor a on: the final value of `defined`.
Collect(d, t, a, an) ==
    LET walked == WalkFrom(d, t, a, an) IN
    IF parent(t, a) = 0 THEN walked
    ELSE Collect(InsertAll(InsertAll(walked, ForCalls(t, a)), ClosureCalls(t, a)),
                 t, parent(t, a), an)

----------------------------------------------------------------------------
(* Vocabulary of the properties *)

ScopeDone == pc = "done" /\ call.op = "scope"

AllNames == {NameOrder[i] : i \in 1..Len(NameOrder)}

Range(f) == {f[i] : i \in DOMAIN f}

\* The entries of the buffer labelled n.
Labelled(n) == {i \in 1..Len(completions) : completions[i].label = n}

\* The child of f that is the cursor leaf or contains it.
SpineChild(t, l, f) == CHOOSE c \in Spine(t, l) : t.par[c] = f

\* The nodes the cursor is inside of.
Enclosing(t, l) == Spine(t, l) \ {l}

\* The nodes whose declarations are in scope at the cursor: the leaf, its
\* ancestors and their preceding siblings.
Visible(t, l) == UNION {Walk(t, b) : b \in Spine(t, l)}

\* c is the iterable of the for loop it is a child of: the node that follows
\* the `in` keyword.
IsIterable(t, c) ==
    \E m \in PrecedingSiblings(t, c) :
        /\ t.kind[m] = "In"
        /\ \A k \in PrecedingSiblings(t, c) : k <= m

\* The let bindings among the nodes walked for ancestor a that declare x.
LetsOf(t, a, x) ==
    {m \in Walk(t, a) : t.kind[m] \in LetKinds /\ x \in Range(LetBindings(t.kind[m]))}

\* The declarations in force at the cursor as the language has them, each
\* with the node whose text it starts in: a let binding or import seen from
\* the cursor, the pattern of a for loop around the cursor (the iterable
\* excepted), the parameters of a closure around the cursor.  Of two
\* declarations of a name, the one with the greater key is the nearer.
Binders(t, l, an) ==
    UNION { {[key |-> m, name |-> c[1], kind |-> c[2]] :
                 c \in Range(LetCalls(t.kind[m]))
                       \cup Range(ImportCalls(t.kind[m],
                                              IF m \in DOMAIN an THEN an[m] ELSE Unresolved))}
            : m \in Visible(t, l) }
    \cup UNION { {[key |-> f, name |-> x, kind |-> "Variable"] : x \in Range(ForPattern)}
                 : f \in {g \in Enclosing(t, l) : /\ t.kind[g] = "ForLoop"
                                                 /\ ~IsIterable(t, SpineChild(t, l, g))} }
    \cup UNION { {[key |-> c, name |-> x[1], kind |-> "Variable"] :
                      x \in Range(ParamCalls(ClosureParams))}
                 : c \in {g \in Enclosing(t, l) : t.kind[g] = "Closure"} }

BindersOf(x) == {b \in Binders(tree, leaf, analyzed) : b.name = x}

NearestBinder(x) == CHOOSE b \in BindersOf(x) : \A o \in BindersOf(x) : o.key <= b.key

\* The first try_insert call made for name x.
FirstCall(x) ==
    calls[CHOOSE i \in 1..Len(calls) :
              /\ calls[i].name = x
              /\ \A j \in 1..(i - 1) : calls[j].name # x]

----------------------------------------------------------------------------
(* C1: same-scope shadowing and first write wins *)

\* C1.  At every moment `defined` holds, for each name handed to try_insert so
\* far, the kind of the first call made for it: a later discovery changes
\* nothing.  And when two or more let bindings walked in one scope declare x,
\* the finished map holds one binding for x, one entry is pushed for it, and
\* where the later of these bindings is the declaration of x nearest before
\* the cursor its kind is the kind recorded.
C1_SameScopeShadowing ==
    /\ pc # "call" =>
          /\ DOMAIN defined = {calls[i].name : i \in 1..Len(calls)} \ {""}
          /\ \A x \in DOMAIN defined : defined[x] = FirstCall(x).kind
    /\ ScopeDone =>
          \A a \in Spine(tree, leaf), x \in AllNames :
             Cardinality(LetsOf(tree, a, x)) >= 2 =>
                /\ x \in DOMAIN defined
                /\ Cardinality(Labelled(x)) = 1
                /\ NearestBinder(x).key = SetMax(LetsOf(tree, a, x)) =>
                      defined[x] = LetCompletionKind(tree.kind[SetMax(LetsOf(tree, a, x))])

\* `let (x, y) = ..` then `let x(a) = ..` before the cursor: x is a function.
C1_Witness ==
    /\ ScopeDone
    /\ \E a \in Spine(tree, leaf) :
          /\ Cardinality(LetsOf(tree, a, "x") \ {a}) >= 2
          /\ tree.kind[SetMax(LetsOf(tree, a, "x"))] = "LetClosure"
          /\ \E m \in LetsOf(tree, a, "x") : tree.kind[m] = "LetNormal"
    /\ defined["x"] = "Func"

----------------------------------------------------------------------------
(* C2: closure parameters shadow outer declarations *)

\* C2.  For a cursor inside a closure, every parameter of the closure that no
\* declaration inside the closure redeclares is recorded with kind Variable,
\* whatever is declared outside the closure.
C2_ClosureParamsShadowOuter ==
    ScopeDone =>
       \A c \in Enclosing(tree, leaf) :
          tree.kind[c] = "Closure" =>
             \A x \in Range(ParamCalls(ClosureParams)) :
                (\A b \in BindersOf(x[1]) : b.key <= c) =>
                   /\ x[1] \in DOMAIN defined
                   /\ defined[x[1]] = "Variable"

----------------------------------------------------------------------------
(* C3: the iterable of a for loop does not see the loop's variables *)

\* C3.  For every for loop around the cursor: when the cursor is in the
\* iterable, no binding is recorded from the loop's pattern; when it is in
\* any other child of the loop (the body), each identifier of the pattern is
\* recorded, with kind Variable unless a declaration of the same name inside
\* the loop is nearer and gave it its kind.
C3_LoopVariableExclusion ==
    ScopeDone =>
       \A f \in Enclosing(tree, leaf) :
          tree.kind[f] = "ForLoop" =>
             IF IsIterable(tree, SpineChild(tree, leaf, f))
             THEN \A i \in 1..Len(calls) : ~(calls[i].via = "for" /\ calls[i].node = f)
             ELSE \A x \in Range(ForPattern) :
                     /\ x \in DOMAIN defined
                     /\ \/ defined[x] = "Variable"
                        \/ \E b \in BindersOf(x) : b.key > f /\ b.kind = defined[x]

\* `for (x, k) in <cursor>`: the cursor is below the iterable and k is unknown.
C3_Witness ==
    /\ ScopeDone
    /\ \E f \in Enclosing(tree, leaf) :
          /\ tree.kind[f] = "ForLoop"
          /\ IsIterable(tree, SpineChild(tree, leaf, f))
    /\ "k" \notin DOMAIN defined

----------------------------------------------------------------------------
(* C4: a local binding shadows the builtin of its name *)

\* C4.  For every name that is a local binding and a key of the selected
\* builtin scope, one entry with that label is pushed, it is the local
\* binding's, and the labels pushed by one call are pairwise distinct.
C4_ShadowOverBuiltin ==
    ScopeDone =>
       /\ \A n \in DOMAIN defined :
             n \in {e[1] : e \in Range(LibraryScope(parent_kind(tree, leaf) \in MathKinds))} =>
                /\ Cardinality(Labelled(n)) = 1
                /\ \A i \in Labelled(n) : /\ completions[i].origin = "local"
                                          /\ completions[i].kind = defined[n]
       /\ \A i, j \in 1..Len(completions) :
             completions[i].label = completions[j].label => i = j

\* x is declared in the document, the general scope has an x that the
\* caller's filter accepts, and other builtins are pushed.
C4_Witness ==
    /\ ScopeDone
    /\ "x" \in DOMAIN defined
    /\ parent_kind(tree, leaf) \notin MathKinds
    /\ "Func" \in call.filter
    /\ \E i \in 1..Len(completions) : completions[i].origin = "global"

----------------------------------------------------------------------------
(* C5: the builtin scope follows the mode at the cursor *)

InMathSubtree(t, l) == \E a \in Enclosing(t, l) : t.kind[a] \in MathKinds

BuiltinOrigins == {completions[i].origin : i \in 1..Len(completions)} \ {"local"}

\* C5 as stated.  With the cursor anywhere below an equation or math node the
\* builtin entries all come from the math scope, and otherwise all from the
\* general scope.
C5_MathAtAnyDepth ==
    ScopeDone =>
       BuiltinOrigins \subseteq (IF InMathSubtree(tree, leaf) THEN {"math"} ELSE {"global"})

\* C5, amended.  The builtin entries all come from the math scope when the
\* parent of the cursor leaf is an equation, math, fraction or attachment
\* node, and all from the general scope otherwise, also when that parent
\* lies inside an equation.
C5_MathByParentKind ==
    ScopeDone =>
       BuiltinOrigins \subseteq
          (IF parent_kind(tree, leaf) \in MathKinds THEN {"math"} ELSE {"global"})

\* The cursor is directly in an equation, nothing is declared, and the math
\* builtins are pushed.
C5_Witness ==
    /\ ScopeDone
    /\ parent_kind(tree, leaf) = "Equation"
    /\ DOMAIN defined = {}
    /\ BuiltinOrigins = {"math"}

----------------------------------------------------------------------------
(* C9: an unresolved import is skipped *)

\* The import nodes analyze_import answered nothing for.
UnresolvedImports == {n \in DOMAIN analyzed : ~analyzed[n].some}

\* The document with the nodes of N replaced by nodes that declare nothing.
Without(t, N) ==
    [par |-> t.par, kind |-> [n \in DOMAIN t.kind |-> IF n \in N THEN "Other" ELSE t.kind[n]]]

\* C9.  The operation never stops before its end, and the bindings it collects
\* and the entries it pushes are those of the same document with every
\* unresolved import replaced by a node that declares nothing.
C9_UnresolvedImportSkipped ==
    /\ (call.op = "scope" /\ pc # "done") => ENABLED (SiblingStep \/ Ascend \/ Assemble)
    /\ ScopeDone =>
          LET rest == Collect(EmptyMap, Without(tree, UnresolvedImports), leaf, analyzed) IN
          /\ defined = rest
          /\ completions =
                BuiltinEntries(LibraryScope(in_math(tree, leaf)), rest, call.filter, call.parens)
                \o LocalEntries(rest, NameOrder)

\* An unresolved import stands between the cursor and a resolved import or a
\* let binding whose names are collected all the same.
C9_Witness ==
    /\ ScopeDone
    /\ \E n \in UnresolvedImports :
          \E i \in 1..Len(calls) : calls[i].node < n /\ calls[i].via \in {"let", "import"}
    /\ DOMAIN defined # {}

----------------------------------------------------------------------------
(* C10: the scope boundary *)

\* C10.  Every binding recorded from a let binding or a module import comes
\* from the cursor leaf, one of its ancestors or a preceding sibling of one
\* of those: never from a following sibling, never from inside a preceding
\* sibling.
C10_ScopeBoundary ==
    \A i \in 1..Len(calls) :
       calls[i].via \in {"let", "import"} => calls[i].node \in Visible(tree, leaf)

\* A let binding of x lies inside a node before the cursor, and x is unknown
\* at the cursor.
C10_Witness ==
    /\ ScopeDone
    /\ \E m \in Nodes(tree) \ Visible(tree, leaf) :
          /\ tree.kind[m] \in LetKinds
          /\ m < leaf
    /\ "x" \notin DOMAIN defined

----------------------------------------------------------------------------
(* C6: named arguments already present are not offered again *)

ParamDone == pc = "done" /\ call.op = "param" /\ call.callee # NoFunc

\* The entries pushed for parameter n.
EntriesOf(n) == {i \in 1..Len(completions) : completions[i].origin = n}

\* The names passed as named arguments in the call.
NamedArguments ==
    {n \in ParamNames : \E i \in 1..Len(call.args) :
                           call.args[i].tag = "Named" /\ call.args[i].name = n}

\* C6.  A parameter whose name is passed as a named argument contributes
\* nothing; every other parameter that may be passed by name (and, in a set
\* rule, is settable) gets one Param entry labelled with its name, whatever
\* the positional and spread arguments are.
C6_ArgumentExclusion ==
    ParamDone =>
       \A n \in DOMAIN call.sig :
          /\ n \in NamedArguments => EntriesOf(n) = {}
          /\ (/\ n \notin NamedArguments
              /\ call.sig[n].named
              /\ call.set => call.sig[n].settable)
             => Cardinality({i \in 1..Len(completions) :
                                /\ completions[i].kind = "Param"
                                /\ completions[i].label = call.sig[n].name}) = 1

\* f(a: 1, ..font, <cursor>) with named parameters a and font: only font is
\* offered.
C6_Witness ==
    /\ ParamDone
    /\ DOMAIN call.sig = {"a", "font"}
    /\ call.sig["a"].named /\ call.sig["a"].positional /\ call.sig["font"].named
    /\ call.args = <<[tag |-> "Named", name |-> "a"], [tag |-> "Spread", name |-> "font"]>>
    /\ EntriesOf("a") = {}
    /\ \E i \in EntriesOf("font") : completions[i].kind = "Param"

----------------------------------------------------------------------------
(* C7: a set rule offers settable parameters only *)

\* The signature sig with every parameter's settable flag set to b.
WithSettable(sig, b) == [n \in DOMAIN sig |-> [sig[n] EXCEPT !.settable = b]]

\* C7.  In a set rule no parameter that is not settable is offered; outside
\* of one the settable flags change nothing of what is appended.
C7_SetContextFiltering ==
    ParamDone =>
       /\ call.set =>
             \A n \in DOMAIN call.sig : ~call.sig[n].settable => EntriesOf(n) = {}
       /\ ~call.set =>
             \A b \in BOOLEAN :
                completions = param_completions(call.callee, WithSettable(call.sig, b),
                                                FALSE, call.args, call.before).entries

\* A set rule on a function with the settable parameter a and the parameter
\* font, named and positional but not settable: a is offered, font is not.
C7_Witness ==
    /\ ParamDone
    /\ call.set
    /\ call.args = <<>>
    /\ DOMAIN call.sig = {"a", "font"}
    /\ call.sig["a"].settable /\ call.sig["a"].named
    /\ ~call.sig["font"].settable /\ call.sig["font"].named /\ call.sig["font"].positional
    /\ EntriesOf("a") # {}
    /\ EntriesOf("font") = {}

----------------------------------------------------------------------------
(* C8: partial applications are unwrapped *)

\* C8.  For a callee that resolves to a function, wrapped in partial
\* applications or not, both operations introspect the base function, and
\* append and request what they do when the callee resolves to the base
\* function itself.
C8_PartialApplicationUnwrapping ==
    (pc = "done" /\ call.op \in {"param", "named"} /\ call.callee # NoFunc) =>
       LET direct == IF call.op = "param"
                     THEN param_completions(BaseFunc, call.sig, call.set, call.args,
                                            call.before)
                     ELSE named_param_value_completions(BaseFunc, call.sig, call.name,
                                                        call.before)
       IN  /\ introspected = BaseFunc
           /\ completions = direct.entries
           /\ enriched = direct.enrich

\* The callee is a partial application of a partial application, and
\* parameters of the base function are offered.
C8_Witness ==
    /\ pc = "done"
    /\ call.op \in {"param", "named"}
    /\ call.callee = WithChain(2)
    /\ completions # <<>>
    /\ enriched # <<>>

====
